---- MODULE Spec2Model ----
(***************************************************************************)
(* Model of the kernel heap allocator of kernel/src/allocator.rs.          *)
(*                                                                         *)
(* Memory is modelled at the granularity of one usize word (8 bytes): both *)
(* headers are #[repr(C)] pairs of usize fields, so a header at address a  *)
(* is the word at a (size) and the word at a+8 (next_free / align_padding).*)
(* The pool base, the pool length and the request sizes of the main        *)
(* specification are multiples of 8, which keeps every header on a word    *)
(* boundary; SpecCarve below covers the carve arithmetic for every size.   *)
(*                                                                         *)
(* A usize value is kept in two's-complement form: a negative integer -k   *)
(* stands for the usize 2^64 - k.  The allocator only adds and subtracts   *)
(* sizes and compares and dereferences addresses, so this representation   *)
(* commutes with every operation of the code (ULess is the unsigned order).*)
(***************************************************************************)
EXTENDS Integers, Sequences, FiniteSets, TLC

\* ------------------------------------------------------------------ bounds
PoolWords == 11        \* length of the single accepted region, in words
MaxLive == 3           \* most allocations the caller holds at once
MaxOps == 7            \* steps taken after init
SlackWords == 12       \* modelled memory below and above the pool, in words
MinPoolWords == 5       \* SpecRT: shortest pool, in words
MaxCarveSize == 20     \* SpecCarve: layout.size() ranges over 1..MaxCarveSize
MaxCarveEnd == 24      \* SpecCarve: segment ends range over MaxCarveEnd + 1 addresses
MaxRegions == 3        \* SpecBoot: most entries of the memory map
MaxPage == 4           \* SpecBoot: physical memory spans MaxPage pages
MaxExtraWidth == 8     \* SpecScreen: pixels of width above the narrowest screen
MaxExtraHeight == 20   \* SpecScreen: pixels of height above the lowest screen
MaxStridePad == 1      \* SpecScreen: pixels of a scan line past the visible width
MaxLinesBelow == 2     \* SpecScreen: line feeds taken past the bottom border

\* ------------------------------------------------------- program constants
WordSize == 8
HeaderSize == 2 * WordSize
NULL == 0

Base == 2 ^ 12
N == WordSize * PoolWords
PoolEnd == Base + N
Floor == Base - WordSize * SlackWords
Ceil == PoolEnd + WordSize * SlackWords
\* a walk of more steps than modelled memory has words has come back to a
\* node it already visited
WalkFuel == PoolWords + 2 * SlackWords + 1

\* requests of the main specification: (layout.size(), layout.align())
Sizes == {8, 16}
Aligns == {8, 16}
\* words the caller stores into its allocations
UserValues == {0, 8}
\* requests of SpecCarve
CarveSizes == 1..MaxCarveSize
CarveAligns == {1, 2, 4, 8, 16, 32, 64}
CarveEnds == {Base + HeaderSize + MaxCarveSize + 64 + e : e \in 0..MaxCarveEnd}

VARIABLES mem, first_free, overflow_checks, halt, live, last, nops, pool_len

vars == <<mem, first_free, overflow_checks, halt, live, last, nops, pool_len>>

\* ----------------------------------------------------------- raw memory
InWindow(a) == a >= Floor /\ a < Ceil /\ a % WordSize = 0

Readable(m, a) == a \in DOMAIN m

Store(m, a, v) == [x \in (DOMAIN m) \cup {a} |-> IF x = a THEN v ELSE m[x]]

\* unsigned order on two's-complement representatives
ULess(a, b) ==
    IF a >= 0 /\ b >= 0 THEN a < b
    ELSE IF a < 0 /\ b < 0 THEN a < b
    ELSE a >= 0

\* FreeSegment::get_end: address of self + size_of(Self) + self.size
get_end(m, seg) == seg + HeaderSize + m[seg]

\* FreeSegment.next_free
next_free(m, seg) == m[seg + WordSize]

\* UsedSegment::whole_size
whole_size(m, used) == m[used] + HeaderSize + m[used + WordSize]

\* ------------------------------------------------------ placement finder
\* find_last_big_enough, loop body: the tail carve hypothesised for `cursor`
\* and the comparison that decides "big enough"
finder_fits(m, cursor, size, align) ==
    LET segment_end == get_end(m, cursor)
        data_start == segment_end - size
        padding_size == data_start % align
        segment_start == data_start - (padding_size + HeaderSize)
    IN ULess(segment_start, get_end(m, cursor))

RECURSIVE find_scan(_, _, _, _, _, _)
find_scan(m, cursor, lastfit, size, align, fuel) ==
    IF cursor = NULL THEN [halt |-> "none", seg |-> lastfit]
    ELSE IF fuel = 0 THEN [halt |-> "Diverge", seg |-> NULL]
    ELSE IF ~(Readable(m, cursor) /\ Readable(m, cursor + WordSize))
         THEN [halt |-> "Wild", seg |-> NULL]
    ELSE find_scan(m, next_free(m, cursor),
                   IF finder_fits(m, cursor, size, align) THEN cursor ELSE lastfit,
                   size, align, fuel - 1)

find_last_big_enough(m, head, size, align) ==
    find_scan(m, head, NULL, size, align, WalkFuel)

\* ------------------------------------------------------------------ carve
\* write_used_segment, address arithmetic (lines 273-280)
carve_header_start0(end) == end - HeaderSize
\* faulty variant: the padding taken from the segment end without the header
carve_padding_from_end(end, size, align) == (end - size) % align
carve_padding(end, size, align) == (carve_header_start0(end) - size) % align
\* faulty variant: the header placed right below the segment end
carve_header_at_end(end, size, align) == carve_header_start0(end)
carve_header_start(end, size, align) ==
    carve_header_start0(end) - carve_padding(end, size, align)
carve_data_start(end, size, align) == carve_header_start(end, size, align) - size

\* write_used_segment: writes the UsedSegment, then shrinks the free segment.
\* `checks` is the build's overflow-checks setting: the usize subtraction
\* panics when it is on and wraps when it is off.
write_used_segment(m, seg, size, align, checks) ==
    LET end == get_end(m, seg)
        padding_size == carve_padding(end, size, align)
        header_start == carve_header_start(end, size, align)
        data_start == carve_data_start(end, size, align)
    IN IF ~(InWindow(header_start) /\ InWindow(header_start + WordSize))
       THEN [mem |-> m, halt |-> "Wild", ptr |-> NULL]
       ELSE LET m1 == Store(Store(m, header_start, size),
                            header_start + WordSize, padding_size)
                whole == whole_size(m1, header_start)
                old == m1[seg]
            IN IF checks /\ ULess(old, whole)
               THEN [mem |-> m1, halt |-> "SubOverflow", ptr |-> NULL]
               ELSE [mem |-> Store(m1, seg, old - whole),
                     halt |-> "none", ptr |-> data_start]

\* <Allocator as GlobalAlloc>::alloc
alloc(m, head, size, align, checks) ==
    LET f == find_last_big_enough(m, head, size, align)
    IN IF f.halt # "none" THEN [mem |-> m, halt |-> f.halt, ptr |-> NULL, seg |-> NULL]
       ELSE IF f.seg = NULL
            THEN [mem |-> m, halt |-> "NoFreeMemory", ptr |-> NULL, seg |-> NULL]
       ELSE LET w == write_used_segment(m, f.seg, size, align, checks)
            IN [mem |-> w.mem, halt |-> w.halt, ptr |-> w.ptr, seg |-> f.seg]

\* ---------------------------------------------------------------- reclaim
RECURSIVE insert_walk(_, _, _, _, _)
insert_walk(m, head, cursor, new_segment, fuel) ==
    IF cursor = NULL
    THEN IF head # NULL
         THEN [mem |-> m, head |-> head, halt |-> "AssertHeadNull"]
         ELSE [mem |-> m, head |-> new_segment, halt |-> "none"]
    ELSE IF fuel = 0 THEN [mem |-> m, head |-> head, halt |-> "Diverge"]
    ELSE IF ~ULess(cursor, new_segment)
         THEN [mem |-> m, head |-> head, halt |-> "AssertOrder"]
    ELSE IF ~Readable(m, cursor + WordSize)
         THEN [mem |-> m, head |-> head, halt |-> "Wild"]
    ELSE LET nx == next_free(m, cursor)
         IN IF nx = NULL \/ ULess(new_segment, nx)
            THEN [mem |-> Store(Store(m, new_segment + WordSize, nx),
                                cursor + WordSize, new_segment),
                  head |-> head, halt |-> "none"]
            ELSE insert_walk(m, head, nx, new_segment, fuel - 1)

\* faulty variant: the new segment is linked in front of the list and stored
\* as the head without the walk
insert_as_head(m, head, new_segment) ==
    [mem |-> Store(m, new_segment + WordSize, head),
     head |-> new_segment, halt |-> "none"]

insert_new_segment(m, head, new_segment) ==
    insert_walk(m, head, head, new_segment, WalkFuel)

RECURSIVE clean_walk(_, _, _)
clean_walk(m, cursor, fuel) ==
    IF cursor = NULL THEN [mem |-> m, halt |-> "none"]
    ELSE IF fuel = 0 THEN [mem |-> m, halt |-> "Diverge"]
    ELSE IF ~(Readable(m, cursor) /\ Readable(m, cursor + WordSize))
         THEN [mem |-> m, halt |-> "Wild"]
    ELSE IF get_end(m, cursor) = next_free(m, cursor)
         THEN LET nx == next_free(m, cursor)
              IN IF ~(Readable(m, nx) /\ Readable(m, nx + WordSize))
                 THEN [mem |-> m, halt |-> "Wild"]
                 ELSE clean_walk(
                        Store(Store(m, cursor, m[cursor] + HeaderSize + m[nx]),
                              cursor + WordSize, next_free(m, nx)),
                        cursor, fuel - 1)
    ELSE clean_walk(m, next_free(m, cursor), fuel - 1)

\* faulty variant: after a merge the cursor advances instead of re-examining
\* the merged node
RECURSIVE clean_walk_advancing(_, _, _)
clean_walk_advancing(m, cursor, fuel) ==
    IF cursor = NULL THEN [mem |-> m, halt |-> "none"]
    ELSE IF fuel = 0 THEN [mem |-> m, halt |-> "Diverge"]
    ELSE IF ~(Readable(m, cursor) /\ Readable(m, cursor + WordSize))
         THEN [mem |-> m, halt |-> "Wild"]
    ELSE IF get_end(m, cursor) = next_free(m, cursor)
         THEN LET nx == next_free(m, cursor)
              IN IF ~(Readable(m, nx) /\ Readable(m, nx + WordSize))
                 THEN [mem |-> m, halt |-> "Wild"]
                 ELSE clean_walk_advancing(
                        Store(Store(m, cursor, m[cursor] + HeaderSize + m[nx]),
                              cursor + WordSize, next_free(m, nx)),
                        next_free(m, nx), fuel - 1)
    ELSE clean_walk_advancing(m, next_free(m, cursor), fuel - 1)

clean_advancing(m, head) == clean_walk_advancing(m, head, WalkFuel)

clean_free_segment_list(m, head) == clean_walk(m, head, WalkFuel)

\* faulty variant: the new FreeSegment's size leaves out align_padding
dealloc_size_only(m, head, ptr, size) ==
    LET used == ptr + size
    IN IF ~(Readable(m, used) /\ Readable(m, used + WordSize)
            /\ InWindow(ptr) /\ InWindow(ptr + WordSize))
       THEN [mem |-> m, head |-> head, halt |-> "Wild"]
       ELSE LET m1 == Store(Store(m, ptr, m[used]), ptr + WordSize, NULL)
                ins == insert_new_segment(m1, head, ptr)
            IN IF ins.halt # "none" THEN ins
               ELSE LET c == clean_free_segment_list(ins.mem, ins.head)
                    IN [mem |-> c.mem, head |-> ins.head, halt |-> c.halt]

\* <Allocator as GlobalAlloc>::dealloc
dealloc(m, head, ptr, size) ==
    LET used == ptr + size
    IN IF ~(Readable(m, used) /\ Readable(m, used + WordSize)
            /\ InWindow(ptr) /\ InWindow(ptr + WordSize))
       THEN [mem |-> m, head |-> head, halt |-> "Wild"]
       ELSE LET m1 == Store(Store(m, ptr, m[used] + m[used + WordSize]),
                            ptr + WordSize, NULL)
                ins == insert_new_segment(m1, head, ptr)
            IN IF ins.halt # "none" THEN ins
               ELSE LET c == clean_free_segment_list(ins.mem, ins.head)
                    IN [mem |-> c.mem, head |-> ins.head, halt |-> c.halt]

\* ------------------------------------------------- observing the free list
\* print_free_segments' walk: the nodes reached from the head, in order;
\* ok is FALSE when the walk leaves written memory or does not reach null.
RECURSIVE list_walk(_, _, _, _)
list_walk(m, cursor, acc, fuel) ==
    IF cursor = NULL THEN [nodes |-> acc, ok |-> TRUE]
    ELSE IF fuel = 0 \/ ~(Readable(m, cursor) /\ Readable(m, cursor + WordSize))
         THEN [nodes |-> acc, ok |-> FALSE]
    ELSE list_walk(m, next_free(m, cursor), Append(acc, cursor), fuel - 1)

FreeList == list_walk(mem, first_free, <<>>, WalkFuel)

\* the placement rule the finder is documented to apply ("big enough"): the
\* carve start hypothesised for the segment is not below the segment's start
carve_fits(m, seg, size, align) ==
    LET segment_end == get_end(m, seg)
        data_start == segment_end - size
        padding_size == data_start % align
        segment_start == data_start - (padding_size + HeaderSize)
    IN ~ULess(segment_start, seg) /\ ~ULess(segment_end, segment_start)

FittingNodes(m, head, size, align) ==
    LET fl == list_walk(m, head, <<>>, WalkFuel)
    IN {fl.nodes[i] : i \in {j \in 1..Len(fl.nodes) :
                               carve_fits(m, fl.nodes[j], size, align)}}

\* ------------------------------------------------------------ the machine
NoOp == [op |-> "init", size |-> 0, align |-> 0, ptr |-> NULL, seg |-> NULL,
         old_size |-> 0, old_end |-> 0, fitting |-> {}, fresh |-> FALSE]

\* state published by init for one accepted region [Base, Base + N)
\* init, lines 140-146 and 171: the FreeSegment written at the start of the
\* accepted region and published as the head
init_mem(len) == (Base :> (len - HeaderSize)) @@ ((Base + WordSize) :> NULL)

Init ==
    /\ pool_len = N
    /\ mem = init_mem(pool_len)
    /\ first_free = Base
    /\ overflow_checks \in BOOLEAN
    /\ halt = "none"
    /\ live = <<>>
    /\ last = NoOp
    /\ nops = 0

Alloc(size, align) ==
    /\ halt = "none"
    /\ nops < MaxOps
    /\ Len(live) < MaxLive
    /\ LET r == alloc(mem, first_free, size, align, overflow_checks)
       IN /\ mem' = r.mem
          /\ halt' = r.halt
          /\ live' = IF r.halt = "none"
                     THEN Append(live, [ptr |-> r.ptr, size |-> size, align |-> align])
                     ELSE live
          /\ last' = [op |-> "alloc", size |-> size, align |-> align,
                      ptr |-> r.ptr, seg |-> r.seg,
                      old_size |-> IF r.seg = NULL THEN 0 ELSE mem[r.seg],
                      old_end |-> IF r.seg = NULL THEN 0 ELSE get_end(mem, r.seg),
                      fitting |-> FittingNodes(mem, first_free, size, align),
                      fresh |-> (last.op = "init")]
    /\ nops' = nops + 1
    /\ UNCHANGED <<first_free, overflow_checks, pool_len>>

Dealloc(i) ==
    /\ halt = "none"
    /\ nops < MaxOps
    /\ i \in 1..Len(live)
    /\ LET a == live[i]
           r == dealloc(mem, first_free, a.ptr, a.size)
       IN /\ mem' = r.mem
          /\ first_free' = r.head
          /\ halt' = r.halt
          /\ live' = [j \in 1..(Len(live) - 1) |-> IF j < i THEN live[j] ELSE live[j + 1]]
          /\ last' = [op |-> "dealloc", size |-> a.size, align |-> a.align,
                      ptr |-> a.ptr, seg |-> NULL, old_size |-> 0,
                      old_end |-> IF Readable(mem, a.ptr + a.size + WordSize)
                                  THEN a.ptr + a.size + HeaderSize
                                       + mem[a.ptr + a.size + WordSize]
                                  ELSE 0,
                      fitting |-> {},
                      fresh |-> (last.op = "alloc" /\ last.fresh /\ i = Len(live))]
    /\ nops' = nops + 1
    /\ UNCHANGED <<overflow_checks, pool_len>>

\* header words of the allocator's metadata: the free nodes reached from
\* the head and the UsedSegment of every live allocation
MetaWords ==
    LET fl == list_walk(mem, first_free, <<>>, WalkFuel).nodes
    IN UNION {{fl[k], fl[k] + WordSize} : k \in 1..Len(fl)}
       \cup UNION {{live[i].ptr + live[i].size, live[i].ptr + live[i].size + WordSize} :
                    i \in 1..Len(live)}

\* The caller stores a word into the data of a live allocation.  Stores to
\* words the allocator keeps no metadata in are never read back by it and
\* are left out; a store is modelled when the word is also a header word.
CallerWrite(i, a, v) ==
    /\ halt = "none"
    /\ nops < MaxOps
    /\ i \in 1..Len(live)
    /\ a >= live[i].ptr /\ a + WordSize <= live[i].ptr + live[i].size
    /\ a \in MetaWords
    /\ a \in DOMAIN mem
    /\ mem[a] # v
    /\ mem' = Store(mem, a, v)
    /\ last' = [NoOp EXCEPT !.op = "write", !.ptr = a]
    /\ nops' = nops + 1
    /\ UNCHANGED <<first_free, overflow_checks, halt, live, pool_len>>

Next ==
    \/ \E size \in Sizes, align \in Aligns : Alloc(size, align)
    \/ \E i \in 1..MaxLive : Dealloc(i)
    \/ \E i \in 1..MaxLive, a \in DOMAIN mem, v \in UserValues : CallerWrite(i, a, v)

Spec == Init /\ [][Next]_vars

\* ---------------------------------------------------------- round trips
\* One allocate on a freshly bootstrapped pool, then the matching deallocate,
\* over a wider range of pool lengths and requests.
RTPoolLens == {WordSize * k : k \in MinPoolWords..PoolWords}
RTSizes == {8, 16, 24, 32}
RTAligns == {8, 16, 32, 64}

InitRT ==
    /\ pool_len \in RTPoolLens
    /\ mem = init_mem(pool_len)
    /\ first_free = Base
    /\ overflow_checks \in BOOLEAN
    /\ halt = "none"
    /\ live = <<>>
    /\ last = NoOp
    /\ nops = 0

NextRT ==
    \/ \E size \in RTSizes, align \in RTAligns : last.op = "init" /\ Alloc(size, align)
    \/ last.op = "alloc" /\ Dealloc(1)

SpecRT == InitRT /\ [][NextRT]_vars

\* ------------------------------------------------------ carve arithmetic
\* write_used_segment's address computation applied to any segment end, any
\* layout.size() and any power-of-two layout.align().
InitCarve ==
    /\ pool_len = N
    /\ mem = init_mem(pool_len)
    /\ first_free = Base
    /\ overflow_checks = FALSE
    /\ halt = "none"
    /\ live = <<>>
    /\ nops = 0
    /\ last \in {[op |-> "request", size |-> s, align |-> a, end |-> e,
                  padding |-> 0, header_start |-> 0, ptr |-> NULL] :
                    s \in CarveSizes, a \in CarveAligns, e \in CarveEnds}

Carve ==
    /\ last.op = "request"
    /\ last' = [last EXCEPT
                  !.op = "carved",
                  !.padding = carve_padding(last.end, last.size, last.align),
                  !.header_start = carve_header_start(last.end, last.size, last.align),
                  !.ptr = carve_data_start(last.end, last.size, last.align)]
    /\ UNCHANGED <<mem, first_free, overflow_checks, halt, live, nops, pool_len>>

NextCarve == Carve

SpecCarve == InitCarve /\ [][NextCarve]_vars

\* ------------------------------------------------------ region bootstrap
\* init applied to a boot_info: a memory map of at most MaxRegions regions
\* (sorted by address, pairwise disjoint, page-granular), the kernel's range
\* and the physical memory offset.
PageSize == 32
PageAddrs == {PageSize * p : p \in 0..MaxPage}
Kinds == {"Usable", "Bootloader"}
BootOffsets == {Base, 2 * Base}

MemoryRegion ==
    {r \in [start : PageAddrs, end : PageAddrs, kind : Kinds] : r.start < r.end}

\* the maps of at most n regions that start at or above address lo
RECURSIVE maps_after(_, _)
maps_after(lo, n) ==
    IF n = 0 THEN {<<>>}
    ELSE {<<>>} \cup
         UNION {{<<r>> \o t : t \in maps_after(r.end, n - 1)} :
                  r \in {x \in MemoryRegion : x.start >= lo}}

MemoryMaps == maps_after(0, MaxRegions)

BootInfos ==
    {bi \in [physical_memory_offset : BootOffsets, kernel_addr : PageAddrs,
             kernel_len : PageAddrs \ {0}, memory_regions : MemoryMaps] :
        bi.kernel_addr + bi.kernel_len <= PageSize * MaxPage}

\* init, line 120: the test that makes the loop skip a usable region
collides_with_kernel(region, kernel_start, kernel_len) ==
    region.end <= kernel_start + kernel_len

\* faulty variant: the whole region length, the header not taken off
region_len(region) == region.end - region.start
\* init, line 143: the size written into the region's FreeSegment
segment_size(region) == (region.end - region.start) - HeaderSize

\* init, lines 113-162: the loop over the memory regions.  st.accepted and
\* st.skipped record which regions got a FreeSegment and which were skipped
\* by the kernel test.
RECURSIVE init_regions(_, _, _)
init_regions(bi, i, st) ==
    IF i > Len(bi.memory_regions) \/ st.halt # "none" THEN st
    ELSE LET region == bi.memory_regions[i]
         IN IF region.kind # "Usable" THEN init_regions(bi, i + 1, st)
            ELSE IF collides_with_kernel(region, bi.kernel_addr, bi.kernel_len)
                 THEN init_regions(bi, i + 1, [st EXCEPT !.skipped = @ \cup {i}])
            ELSE LET segment == region.start + bi.physical_memory_offset
                     m1 == Store(Store(st.mem, segment, segment_size(region)),
                                 segment + WordSize, NULL)
                 IN IF st.head = NULL
                    THEN init_regions(bi, i + 1,
                             [st EXCEPT !.mem = m1, !.head = segment,
                                        !.tail = segment,
                                        !.accepted = Append(@, i)])
                    ELSE IF ~ULess(next_free(m1, st.tail), segment)
                         THEN [st EXCEPT !.mem = m1, !.halt = "AssertOrdered"]
                    ELSE init_regions(bi, i + 1,
                             [st EXCEPT !.mem = Store(m1, st.tail + WordSize, segment),
                                        !.tail = segment,
                                        !.accepted = Append(@, i)])

init_start ==
    [mem |-> <<>>, head |-> NULL, tail |-> NULL, halt |-> "none",
     accepted |-> <<>>, skipped |-> {}]

\* faulty variant: the head is published without the single-region assertion
init_publishing(bi) ==
    LET st == init_regions(bi, 1, init_start)
    IN {[mem |-> st.mem, first_free |-> st.head, halt |-> st.halt,
         accepted |-> st.accepted, skipped |-> st.skipped]}

\* init: the outcomes of the call.  With no accepted region
\* `(*head).next_free` reads through a null pointer: the read faults, or it
\* yields some word and the assertion fails or passes.
init(bi) ==
    LET st == init_regions(bi, 1, init_start)
        out(h, ff) == [mem |-> st.mem, first_free |-> ff, halt |-> h,
                       accepted |-> st.accepted, skipped |-> st.skipped]
    IN IF st.halt # "none" THEN {out(st.halt, NULL)}
       ELSE IF st.head = NULL
            THEN {out("NullDeref", NULL), out("AssertSingleRegion", NULL),
                  out("none", NULL)}
       ELSE IF next_free(st.mem, st.head) # NULL
            THEN {out("AssertSingleRegion", NULL)}
       ELSE {out("none", st.head)}

InitBoot ==
    /\ pool_len = 0
    /\ mem = <<>>
    /\ first_free = NULL
    /\ overflow_checks = FALSE
    /\ halt = "none"
    /\ live = <<>>
    /\ nops = 0
    /\ last \in {[op |-> "boot_info", boot_info |-> bi,
                  accepted |-> <<>>, skipped |-> {}] : bi \in BootInfos}

Boot ==
    /\ last.op = "boot_info"
    /\ \E r \in init(last.boot_info) :
          /\ mem' = r.mem
          /\ first_free' = r.first_free
          /\ halt' = r.halt
          /\ last' = [last EXCEPT !.op = "booted", !.accepted = r.accepted,
                                  !.skipped = r.skipped]
    /\ UNCHANGED <<overflow_checks, live, nops, pool_len>>

NextBoot == Boot

SpecBoot == InitBoot /\ [][NextBoot]_vars

\* ------------------------------------------------------- bit manipulation
\* A machine word of W bits is the set of the positions of its one bits
\* (position 0 is the least significant bit): & is intersection, | is union,
\* ! is the complement in 0..W-1, and a shift moves the positions and drops
\* those that leave the word.
ByteBits == 8
WordBits == 64
BitPos(W) == 0..(W - 1)

shl(W, x, k) == {i + k : i \in x} \cap BitPos(W)
shr(x, k) == {i - k : i \in {j \in x : j >= k}}
bit_not(W, x) == BitPos(W) \ x
\* x - 1 for a word x that is not zero
sub_one(x) ==
    LET low == CHOOSE i \in x : \A j \in x : i <= j
    IN (x \ {low}) \cup 0..(low - 1)

\* the word of a natural number
RECURSIVE bits_of(_, _)
bits_of(n, i) ==
    IF n = 0 THEN {}
    ELSE (IF n % 2 = 1 THEN {i} ELSE {}) \cup bits_of(n \div 2, i + 1)

word(n) == bits_of(n, 0)
\* the 64-bit word with byte k (little endian, k in 0..7) equal to b
byte_at(k, b) == shl(WordBits, word(b), ByteBits * k)

\* GetBit::get_bit
get_bit(W, x, idx) == (x \cap shl(W, {0}, idx)) # {}

\* GetBit::get_bits.  `1 << len` overflows when len is the width of the
\* word: the build panics with overflow checks on and shifts by len modulo
\* the width with them off; val is the value computed in the second case.
get_bits(W, x, first_idx, len) ==
    LET mask == sub_one(shl(W, {0}, len % W))
    IN [overflow |-> len >= W,
        val |-> shr(x, (first_idx + 1) - len) \cap mask]

\* SetBit::set_bit
set_bit(W, x, idx, value) ==
    (x \cap bit_not(W, shl(W, {0}, idx)))
        \cup shl(W, IF value THEN {0} ELSE {}, idx)

\* faulty variant: the field is not cleared before the value is or-ed in
set_bits_no_clear(W, x, first_idx, len, value) ==
    x \cup shl(W, value, (first_idx + 1) - len)
\* SetBit::set_bits
set_bits(W, x, first_idx, len, value) ==
    LET mask0 == shr(BitPos(W), W - len)
        mask == bit_not(W, shl(W, mask0, (first_idx + 1) - len))
    IN (x \cap mask) \cup shl(W, value, (first_idx + 1) - len)

\* ---------------------------------------------- set_bits / get_bits calls
\* words the calls are applied to and values that are stored
Alternating(W) == {i \in BitPos(W) : i % 2 = 0}
BitWords(W) ==
    {{}, BitPos(W), Alternating(W), bit_not(W, Alternating(W)),
     {i \in BitPos(W) : (i \div 4) % 2 = 0}, word(154)}
BitLens(W, first_idx) ==
    {len \in {1, 2, 3, 4, 8, 16, 24, 32, first_idx, first_idx + 1} :
        len >= 1 /\ len <= first_idx + 1}
BitValues(W, len) ==
    IF W = ByteBits THEN SUBSET BitPos(len)
    ELSE {{}, BitPos(len), {len - 1}, Alternating(W) \cap BitPos(len)}

BitFirst(W) ==
    IF W = ByteBits THEN BitPos(W) ELSE {0, 7, 15, 31, 39, 47, 51, 55, 63}
BitFields ==
    UNION {UNION {{<<W, f, l>> : l \in BitLens(W, f)} : f \in BitFirst(W)} :
             W \in {ByteBits, WordBits}}

BitRequests ==
    UNION {{[op |-> "bits", width |-> t[1], x |-> x, first_idx |-> t[2],
             len |-> t[3], value |-> v, out |-> {}, got |-> {}] :
               x \in BitWords(t[1]), v \in BitValues(t[1], t[3])} :
             t \in BitFields}

InitBits ==
    /\ pool_len = 0
    /\ mem = <<>>
    /\ first_free = NULL
    /\ overflow_checks \in BOOLEAN
    /\ halt = "none"
    /\ live = <<>>
    /\ nops = 0
    /\ last \in BitRequests

\* x.set_bits(first_idx, len, value) followed by x.get_bits(first_idx, len)
SetGetBits ==
    /\ last.op = "bits"
    /\ LET out == set_bits(last.width, last.x, last.first_idx, last.len, last.value)
           g == get_bits(last.width, out, last.first_idx, last.len)
           panics == g.overflow /\ overflow_checks
       IN /\ halt' = IF panics THEN "ShiftOverflow" ELSE "none"
          /\ last' = [last EXCEPT !.op = "bits_done", !.out = out,
                                  !.got = IF panics THEN {} ELSE g.val]
    /\ UNCHANGED <<mem, first_free, overflow_checks, live, nops, pool_len>>

NextBits == SetGetBits

SpecBits == InitBits /\ [][NextBits]_vars

\* ---------------------------------------------------- segment descriptors
\* SegmentDescriptor(u64), AccessByte(u8), Flags(u8) and TSS(u64, u64).
\* A `&mut AccessByte` / `&mut Flags` into a descriptor is the offset of the
\* byte it points to; deref and store_byte read and write through it
\* (little endian: byte k holds bits 8k+7 .. 8k).
deref(sd, offset) == shr(sd, ByteBits * offset) \cap BitPos(ByteBits)
store_byte(sd, offset, b) ==
    (sd \ {ByteBits * offset + i : i \in BitPos(ByteBits)})
        \cup shl(WordBits, b, ByteBits * offset)

\* SegmentDescriptor::flags
flags(sd) == get_bits(WordBits, sd, 55, 4).val \cap BitPos(ByteBits)
\* SegmentDescriptor::flags_mut
flags_mut(sd) == 6
\* SegmentDescriptor::access_byte
access_byte(sd) == shr(sd, 40) \cap BitPos(ByteBits)
\* faulty variant: the byte index of a big-endian word
access_byte_mut_big_endian(sd) == 2
\* SegmentDescriptor::access_byte_mut
access_byte_mut(sd) == 5

\* AccessByte accessors
p(ab) == get_bit(ByteBits, ab, 7)
set_p(ab, value) == set_bit(ByteBits, ab, 7, value)
dpl(ab) == get_bits(ByteBits, ab, 6, 2).val
set_dpl(ab, value) == set_bits(ByteBits, ab, 6, 2, word(value))
s(ab) == get_bit(ByteBits, ab, 4)
set_s(ab, value) == set_bit(ByteBits, ab, 4, value)
e(ab) == get_bit(ByteBits, ab, 3)
set_e(ab, value) == set_bit(ByteBits, ab, 3, value)
rw(ab) == get_bit(ByteBits, ab, 1)
set_rw(ab, value) == set_bit(ByteBits, ab, 1, value)

\* Flags accessors
g(f) == get_bit(ByteBits, f, 7)
set_g(f, value) == set_bit(ByteBits, f, 7, value)
db(f) == get_bit(ByteBits, f, 6)
set_db(f, value) == set_bit(ByteBits, f, 6, value)
l(f) == get_bit(ByteBits, f, 5)
set_l(f, value) == set_bit(ByteBits, f, 5, value)

Ring0 == 0
Ring3 == 3

\* sd.access_byte_mut().set_<field>(value) and sd.flags_mut().set_<field>(value);
\* value is 0 or 1 for the one-bit fields and a DPL for "dpl"
AccessFields == {"p", "dpl", "s", "e", "rw"}
FlagFields == {"g", "db", "l"}
FieldValues(field) == IF field = "dpl" THEN Ring0..Ring3 ELSE {0, 1}

set_access_field(ab, field, value) ==
    CASE field = "p" -> set_p(ab, value = 1)
      [] field = "dpl" -> set_dpl(ab, value)
      [] field = "s" -> set_s(ab, value = 1)
      [] field = "e" -> set_e(ab, value = 1)
      [] field = "rw" -> set_rw(ab, value = 1)

set_flag_field(f, field, value) ==
    CASE field = "g" -> set_g(f, value = 1)
      [] field = "db" -> set_db(f, value = 1)
      [] field = "l" -> set_l(f, value = 1)

set_field(sd, field, value) ==
    IF field \in AccessFields
    THEN store_byte(sd, access_byte_mut(sd),
                    set_access_field(deref(sd, access_byte_mut(sd)), field, value))
    ELSE store_byte(sd, flags_mut(sd),
                    set_flag_field(deref(sd, flags_mut(sd)), field, value))

\* the field read back through the read-only byte accessors of the setters'
\* target byte
get_field(sd, field) ==
    LET ab == deref(sd, 5)
        f == deref(sd, 6)
        bit(b) == IF b THEN 1 ELSE 0
    IN CASE field = "p" -> bit(p(ab))
         [] field = "dpl" -> Cardinality(dpl(ab) \cap {0}) + 2 * Cardinality(dpl(ab) \cap {1})
         [] field = "s" -> bit(s(ab))
         [] field = "e" -> bit(e(ab))
         [] field = "rw" -> bit(rw(ab))
         [] field = "g" -> bit(g(f))
         [] field = "db" -> bit(db(f))
         [] field = "l" -> bit(l(f))

RECURSIVE set_fields(_, _)
set_fields(sd, calls) ==
    IF calls = <<>> THEN sd
    ELSE set_fields(set_field(sd, Head(calls)[1], Head(calls)[2]), Tail(calls))

\* the four constructors: the setter calls applied to SegmentDescriptor(0)
kernel_mode_code_segment ==
    set_fields({}, <<<<"p", 1>>, <<"s", 1>>, <<"e", 1>>, <<"rw", 1>>,
                     <<"g", 1>>, <<"l", 1>>>>)
kernel_mode_data_segment ==
    set_fields({}, <<<<"p", 1>>, <<"s", 1>>, <<"rw", 1>>,
                     <<"g", 1>>, <<"db", 1>>>>)
user_mode_code_segment ==
    set_fields({}, <<<<"p", 1>>, <<"dpl", Ring3>>, <<"s", 1>>, <<"e", 1>>,
                     <<"rw", 1>>, <<"g", 1>>, <<"l", 1>>>>)
user_mode_data_segment ==
    set_fields({}, <<<<"p", 1>>, <<"dpl", Ring3>>, <<"s", 1>>, <<"rw", 1>>,
                     <<"g", 1>>, <<"db", 1>>>>)

Constructors == {"kernel_code", "kernel_data", "user_code", "user_data"}
construct(kind) ==
    CASE kind = "kernel_code" -> kernel_mode_code_segment
      [] kind = "kernel_data" -> kernel_mode_data_segment
      [] kind = "user_code" -> user_mode_code_segment
      [] kind = "user_data" -> user_mode_data_segment

\* raw descriptor values: sample bytes at offsets 5 and 6 over three settings
\* of the other six bytes
ByteSamples == {word(b) : b \in {0, 255, 240, 15, 154, 160, 192, 85}}
Backgrounds == {{}, BitPos(WordBits), Alternating(WordBits)}
DescWords ==
    {store_byte(store_byte(bg, 5, b5), 6, b6) :
        bg \in Backgrounds, b5 \in ByteSamples, b6 \in ByteSamples}

NoDesc ==
    [op |-> "descriptor", raw |-> {}, out |-> {}, field |-> "", value |-> 0,
     flags |-> {}, flags_mut |-> {}, access_byte |-> {}, access_byte_mut |-> {}]

InitDesc ==
    /\ pool_len = 0
    /\ mem = <<>>
    /\ first_free = NULL
    /\ overflow_checks = FALSE
    /\ halt = "none"
    /\ live = <<>>
    /\ nops = 0
    /\ last \in {[NoDesc EXCEPT !.raw = raw] : raw \in DescWords}

\* the four byte accessors applied to one descriptor
ReadAccessors ==
    /\ last.op = "descriptor"
    /\ last' = [last EXCEPT
                  !.op = "read",
                  !.flags = flags(last.raw),
                  !.flags_mut = deref(last.raw, flags_mut(last.raw)),
                  !.access_byte = access_byte(last.raw),
                  !.access_byte_mut = deref(last.raw, access_byte_mut(last.raw))]
    /\ UNCHANGED <<mem, first_free, overflow_checks, halt, live, nops, pool_len>>

\* one setter applied through access_byte_mut() / flags_mut()
ApplySetter(field, value) ==
    /\ last.op = "descriptor"
    /\ value \in FieldValues(field)
    /\ last' = [last EXCEPT !.op = "set", !.field = field, !.value = value,
                            !.out = set_field(last.raw, field, value)]
    /\ UNCHANGED <<mem, first_free, overflow_checks, halt, live, nops, pool_len>>

Construct(kind) ==
    /\ last.op = "descriptor"
    /\ last' = [last EXCEPT !.op = "constructed", !.field = kind,
                            !.out = construct(kind)]
    /\ UNCHANGED <<mem, first_free, overflow_checks, halt, live, nops, pool_len>>

NextDesc ==
    \/ ReadAccessors
    \/ \E field \in AccessFields \cup FlagFields, value \in Ring0..Ring3 :
          ApplySetter(field, value)
    \/ \E kind \in Constructors : Construct(kind)

SpecDesc == InitDesc /\ [][NextDesc]_vars

\* -------------------------------------------------------------------- TSS
\* TSS(u64, u64) is the pair <<self.0, self.1>>.
U32Bits == 32

\* TSS::access_byte
tss_access_byte(tss) == shr(tss[2], 40) \cap BitPos(ByteBits)

\* TSS::base
base(tss) ==
    LET upper == get_bits(WordBits, tss[1], 31, 32).val
        lower_first == get_bits(WordBits, tss[2], 63, 8).val
        lower_rest == get_bits(WordBits, tss[2], 39, 24).val
    IN shl(WordBits, upper, 32)
         \cup (shl(WordBits, lower_first, 24) \cup lower_rest)

\* TSS::set_base
set_base(tss, value) ==
    LET upper == get_bits(WordBits, value, 63, 32).val
        w0 == set_bits(WordBits, tss[1], 31, 32, upper)
        lower_first == get_bits(WordBits, value, 31, 8).val
        lower_rest == get_bits(WordBits, value, 23, 24).val
        w1 == set_bits(WordBits,
                       set_bits(WordBits, tss[2], 63, 8, lower_first),
                       39, 24, lower_rest)
    IN <<w0, w1>>

\* TSS::limit
limit(tss) ==
    LET upper == get_bits(WordBits, tss[2], 51, 4).val
        lower == get_bits(WordBits, tss[2], 15, 16).val
    IN (shl(WordBits, upper, 16) \cup lower) \cap BitPos(U32Bits)

\* TSS::set_limit
set_limit(tss, value) ==
    LET upper == get_bits(U32Bits, value, 19, 4).val
        w1 == set_bits(WordBits, tss[2], 51, 4, upper)
        lower == get_bits(U32Bits, value, 15, 16).val
    IN <<tss[1], set_bits(WordBits, w1, 15, 16, lower)>>

\* TSS contents, and the values stored: zero, all ones, every word with one
\* bit set or one bit clear, and two mixed words
TssWords == {{}, BitPos(WordBits), Alternating(WordBits),
             bit_not(WordBits, Alternating(WordBits))}
SampleValues(W) ==
    {{}, BitPos(W), Alternating(W), bit_not(W, Alternating(W))}
        \cup {{i} : i \in BitPos(W)}
        \cup {BitPos(W) \ {i} : i \in BitPos(W)}
LimitBits == 20

NoTss == [op |-> "tss", tss |-> <<{}, {}>>, value |-> {}, out |-> <<{}, {}>>]

InitTss ==
    /\ pool_len = 0
    /\ mem = <<>>
    /\ first_free = NULL
    /\ overflow_checks = FALSE
    /\ halt = "none"
    /\ live = <<>>
    /\ nops = 0
    /\ last \in {[NoTss EXCEPT !.tss = <<w0, w1>>] : w0 \in TssWords, w1 \in TssWords}

SetBase(value) ==
    /\ last.op = "tss"
    /\ last' = [last EXCEPT !.op = "set_base", !.value = value,
                            !.out = set_base(last.tss, value)]
    /\ UNCHANGED <<mem, first_free, overflow_checks, halt, live, nops, pool_len>>

SetLimit(value) ==
    /\ last.op = "tss"
    /\ last' = [last EXCEPT !.op = "set_limit", !.value = value,
                            !.out = set_limit(last.tss, value)]
    /\ UNCHANGED <<mem, first_free, overflow_checks, halt, live, nops, pool_len>>

NextTss ==
    \/ \E value \in SampleValues(WordBits) : SetBase(value)
    \/ \E value \in SampleValues(LimitBits) : SetLimit(value)

SpecTss == InitTss /\ [][NextTss]_vars

\* ------------------------------------------------------ concurrent callers
\* Two execution contexts call alloc.  The Allocator holds an AtomicPtr and no
\* lock (lines 67-70), so the memory accesses of the two calls interleave;
\* each call is taken here in three steps: the finder scan, the write of the
\* UsedSegment, and the read-modify-write of the free segment's size.
Contexts == {1, 2}

\* write_used_segment, lines 273-286: the address arithmetic from the
\* segment's end as read now, and the write of the UsedSegment
carve_write(m, seg, size, align) ==
    LET end == get_end(m, seg)
        padding_size == carve_padding(end, size, align)
        header_start == carve_header_start(end, size, align)
    IN IF ~(InWindow(header_start) /\ InWindow(header_start + WordSize))
       THEN [mem |-> m, halt |-> "Wild", used |-> NULL, ptr |-> NULL]
       ELSE [mem |-> Store(Store(m, header_start, size),
                           header_start + WordSize, padding_size),
             halt |-> "none", used |-> header_start,
             ptr |-> carve_data_start(end, size, align)]

\* write_used_segment, line 288: (*free_segment).size -= (*used).whole_size()
carve_shrink(m, seg, used, checks) ==
    IF checks /\ ULess(m[seg], whole_size(m, used))
    THEN [mem |-> m, halt |-> "SubOverflow"]
    ELSE [mem |-> Store(m, seg, m[seg] - whole_size(m, used)), halt |-> "none"]

IdleCtx ==
    [pc |-> "idle", size |-> 0, align |-> 0, seg |-> NULL, used |-> NULL,
     ptr |-> NULL]

InitConc ==
    /\ pool_len = N
    /\ mem = init_mem(pool_len)
    /\ first_free = Base
    /\ overflow_checks \in BOOLEAN
    /\ halt = "none"
    /\ live = <<>>
    /\ nops = 0
    /\ last = [op |-> "contexts", ctx |-> [c \in Contexts |-> IdleCtx]]

\* context c enters alloc(layout)
ConcCall(c, size, align) ==
    /\ halt = "none"
    /\ last.ctx[c].pc = "idle"
    /\ last' = [last EXCEPT !.ctx[c] = [IdleCtx EXCEPT !.pc = "find",
                                                       !.size = size,
                                                       !.align = align]]
    /\ UNCHANGED <<mem, first_free, overflow_checks, halt, live, nops, pool_len>>

\* alloc, line 295: find_last_big_enough
ConcFind(c) ==
    /\ halt = "none"
    /\ last.ctx[c].pc = "find"
    /\ LET f == find_last_big_enough(mem, first_free, last.ctx[c].size,
                                     last.ctx[c].align)
       IN /\ halt' = IF f.halt # "none" THEN f.halt
                     ELSE IF f.seg = NULL THEN "NoFreeMemory" ELSE "none"
          /\ last' = [last EXCEPT !.ctx[c].pc = "write", !.ctx[c].seg = f.seg]
    /\ UNCHANGED <<mem, first_free, overflow_checks, live, nops, pool_len>>

ConcWrite(c) ==
    /\ halt = "none"
    /\ last.ctx[c].pc = "write"
    /\ LET w == carve_write(mem, last.ctx[c].seg, last.ctx[c].size,
                            last.ctx[c].align)
       IN /\ mem' = w.mem
          /\ halt' = w.halt
          /\ last' = [last EXCEPT !.ctx[c].pc = "shrink",
                                  !.ctx[c].used = w.used, !.ctx[c].ptr = w.ptr]
    /\ UNCHANGED <<first_free, overflow_checks, live, nops, pool_len>>

\* the size update, and the return of the data pointer
ConcShrink(c) ==
    /\ halt = "none"
    /\ last.ctx[c].pc = "shrink"
    /\ LET r == carve_shrink(mem, last.ctx[c].seg, last.ctx[c].used,
                             overflow_checks)
       IN /\ mem' = r.mem
          /\ halt' = r.halt
          /\ live' = IF r.halt = "none"
                     THEN Append(live, [ptr |-> last.ctx[c].ptr,
                                        size |-> last.ctx[c].size,
                                        align |-> last.ctx[c].align])
                     ELSE live
          /\ last' = [last EXCEPT !.ctx[c].pc = "done"]
    /\ UNCHANGED <<first_free, overflow_checks, nops, pool_len>>

NextConc ==
    \/ \E c \in Contexts, size \in Sizes, align \in Aligns : ConcCall(c, size, align)
    \/ \E c \in Contexts : ConcFind(c)
    \/ \E c \in Contexts : ConcWrite(c)
    \/ \E c \in Contexts : ConcShrink(c)

SpecConc == InitConc /\ [][NextConc]_vars

\* ---------------------------------------------------------- screen writer
\* io/vga.rs.  The writer is a record of the frame buffer's info, the cursor
\* and the buffer; the buffer is kept as the set of glyph boxes drawn since
\* it was last filled with BG_COLOR.  `drawn`, `cleared` and `wrapped` record
\* what the last print_char did.
HORIZONTAL_BORDER_PADDING == 30
VERTICAL_BORDER_PADDING == 30
CHAR_SPACING == 0
CHAR_HEIGHT == 16
\* get_raster_width(FontWeight::Regular, RasterHeight::Size16) of the font crate
CHAR_WIDTH == 7
LINE_SPACING == 2
BytesPerPixel == 3

\* frame buffers of the loader: a scan line holds at least the visible width
\* and the buffer holds every scan line
FrameBufferInfos ==
    {[width |-> CHAR_WIDTH + 2 * HORIZONTAL_BORDER_PADDING + dw,
      height |-> CHAR_HEIGHT + 2 * VERTICAL_BORDER_PADDING + dh,
      stride |-> CHAR_WIDTH + 2 * HORIZONTAL_BORDER_PADDING + dw + pad,
      bytes_per_pixel |-> BytesPerPixel,
      byte_len |-> (CHAR_WIDTH + 2 * HORIZONTAL_BORDER_PADDING + dw + pad)
                     * (CHAR_HEIGHT + 2 * VERTICAL_BORDER_PADDING + dh)
                     * BytesPerPixel] :
        dw \in 0..MaxExtraWidth, dh \in 0..MaxExtraHeight, pad \in 0..MaxStridePad}

NoBox == [x0 |-> 0, y0 |-> 0, x1 |-> 0, y1 |-> 0]

\* VGAWriter::clear
clear(w) ==
    [w EXCEPT !.cur_x = HORIZONTAL_BORDER_PADDING,
              !.cur_y = VERTICAL_BORDER_PADDING,
              !.boxes = {}, !.cleared = TRUE]

\* VGAWriter::init: the writer stored in SCREEN_WRITER
new_writer(info) ==
    [clear([info |-> info, cur_x |-> HORIZONTAL_BORDER_PADDING,
            cur_y |-> VERTICAL_BORDER_PADDING, boxes |-> {}, halt |-> "none",
            drawn |-> NoBox, cleared |-> FALSE, wrapped |-> FALSE])
       EXCEPT !.cleared = FALSE]

\* VGAWriter::carriage_return
carriage_return(w) == [w EXCEPT !.cur_x = HORIZONTAL_BORDER_PADDING]

\* faulty variant: the line feed keeps the column
newline_keeping_column(w) == [w EXCEPT !.cur_y = @ + CHAR_HEIGHT + LINE_SPACING]

\* VGAWriter::newline
newline(w) == carriage_return([w EXCEPT !.cur_y = @ + CHAR_HEIGHT + LINE_SPACING])

\* VGAWriter::write_pixel, line 141: the index of the pixel's first byte
pixel_idx(info, x, y) == (y * info.stride + x) * info.bytes_per_pixel

\* VGAWriter::write_pixel: "AssertIdx" is the assertion of line 143,
\* "IndexOutOfBounds" the slice index check of lines 147-149
write_pixel(info, x, y) ==
    IF ~(pixel_idx(info, x, y) < info.byte_len) THEN "AssertIdx"
    ELSE IF ~(pixel_idx(info, x, y) + 2 < info.byte_len) THEN "IndexOutOfBounds"
    ELSE "none"

\* the raster of a glyph: CHAR_HEIGHT rows of CHAR_WIDTH pixels
RasterPixels == (0..(CHAR_WIDTH - 1)) \X (0..(CHAR_HEIGHT - 1))

\* VGAWriter::write_rendered_char: the pixels are written row by row; the
\* first write that fails ends the call
write_rendered_char(w) ==
    LET bad == {px \in RasterPixels :
                  write_pixel(w.info, w.cur_x + px[1], w.cur_y + px[2]) # "none"}
        box == [x0 |-> w.cur_x, y0 |-> w.cur_y,
                x1 |-> w.cur_x + CHAR_WIDTH, y1 |-> w.cur_y + CHAR_HEIGHT]
    IN IF bad # {}
       THEN LET first == CHOOSE px \in bad :
                           \A q \in bad :
                               px[2] < q[2] \/ (px[2] = q[2] /\ px[1] <= q[1])
            IN [w EXCEPT !.halt = write_pixel(w.info, w.cur_x + first[1],
                                              w.cur_y + first[2]),
                         !.drawn = box]
       ELSE [w EXCEPT !.boxes = @ \cup {box}, !.drawn = box,
                      !.cur_x = @ + CHAR_WIDTH + CHAR_SPACING]

\* VGAWriter::print_char, the arm of a character that is drawn
print_glyph(w) ==
    LET new_x == w.cur_x + CHAR_WIDTH
        w1 == IF new_x > w.info.width - HORIZONTAL_BORDER_PADDING
              THEN [newline(w) EXCEPT !.wrapped = TRUE] ELSE w
        new_y == w1.cur_y + CHAR_HEIGHT
        w2 == IF new_y > w1.info.height - VERTICAL_BORDER_PADDING
              THEN clear(w1) ELSE w1
    IN write_rendered_char(w2)

Chars == {"a", "LF", "CR"}

\* VGAWriter::print_char
print_char(w, c) ==
    LET w0 == [w EXCEPT !.drawn = NoBox, !.cleared = FALSE, !.wrapped = FALSE]
    IN CASE c = "LF" -> newline(w0)
         [] c = "CR" -> carriage_return(w0)
         [] OTHER -> print_glyph(w0)

InitScreen ==
    /\ pool_len = 0
    /\ mem = <<>>
    /\ first_free = NULL
    /\ overflow_checks = FALSE
    /\ halt = "none"
    /\ live = <<>>
    /\ nops = 0
    /\ last \in {[op |-> "writer", c |-> "", prev |-> new_writer(info),
                  w |-> new_writer(info)] : info \in FrameBufferInfos}

\* one character of write_str; the cursor's row is kept within MaxLinesBelow
\* lines of the bottom border
PrintChar(c) ==
    /\ last.op \in {"writer", "printed"}
    /\ halt = "none"
    /\ c = "LF" =>
          last.w.cur_y < last.w.info.height
                           + MaxLinesBelow * (CHAR_HEIGHT + LINE_SPACING)
    /\ LET r == print_char(last.w, c)
       IN /\ last' = [op |-> "printed", c |-> c, prev |-> last.w, w |-> r]
          /\ halt' = r.halt
    /\ UNCHANGED <<mem, first_free, overflow_checks, live, nops, pool_len>>

NextScreen == \E c \in Chars : PrintChar(c)

SpecScreen == InitScreen /\ [][NextScreen]_vars

\* --------------------------------------------------- stores of addresses
\* The main specification with one more kind of caller store: the word the
\* caller stores into its allocation is an address (linked structures kept
\* in heap blocks hold such words).
PointerValues == {Base}

StorePointer(i, a) == \E v \in PointerValues : CallerWrite(i, a, v)

NextStore ==
    \/ Next
    \/ \E i \in 1..MaxLive, a \in DOMAIN mem : StorePointer(i, a)

SpecStore == Init /\ [][NextStore]_vars

\* ------------------------------------------------------------ vocabulary
Disjoint(a, alen, b, blen) == a + alen <= b \/ b + blen <= a

LiveIdx == 1..Len(live)
Nodes == FreeList.nodes
NodeIdx == 1..Len(Nodes)
Returned == last.op = "alloc" /\ halt = "none"
Completed == halt = "none"

\* C1: the data ranges of the live allocations are pairwise disjoint and
\* disjoint from every free node's header and every live UsedSegment header.
C1_NonOverlap ==
    Completed =>
        /\ \A i, j \in LiveIdx :
             i # j => Disjoint(live[i].ptr, live[i].size, live[j].ptr, live[j].size)
        /\ \A i \in LiveIdx : \A k \in NodeIdx :
             Disjoint(live[i].ptr, live[i].size, Nodes[k], HeaderSize)
        /\ \A i, j \in LiveIdx :
             Disjoint(live[i].ptr, live[i].size, live[j].ptr + live[j].size, HeaderSize)

\* C2: a returned data pointer is a multiple of the requested alignment.
C2_Aligned == last.op = "carved" => last.ptr % last.align = 0

\* a carve with an alignment above the header size, a size that is no
\* multiple of the word size and a non-zero padding
C2_Witness ==
    /\ last.op = "carved"
    /\ last.align = 64
    /\ last.size % WordSize # 0
    /\ last.padding > HeaderSize

\* C3: when no free segment satisfies the placement rule the call ends in the
\* "No free memory found." panic.
C3_OutOfMemory ==
    (last.op = "alloc" /\ last.fitting = {}) => halt = "NoFreeMemory"

\* C4: the consumed span of a returned allocation lies inside the chosen
\* segment's payload and the size subtraction does not go below zero.
C4_SpanInside ==
    /\ last.op = "alloc" => halt # "SubOverflow"
    /\ Returned =>
          /\ last.ptr >= last.seg + HeaderSize
          /\ last.old_size >= 0
          /\ last.old_size - (last.old_end - last.ptr) >= 0

\* C5: the free list is strictly ascending by address and ends in null.
C5_Sorted ==
    Completed =>
        /\ FreeList.ok
        /\ \A k \in NodeIdx : k > 1 => Nodes[k - 1] < Nodes[k]

\* C6: no two free nodes' byte ranges (header plus size) overlap.
C6_FreeDisjoint ==
    Completed =>
        /\ FreeList.ok
        /\ \A k \in NodeIdx : k > 1 => get_end(mem, Nodes[k - 1]) <= Nodes[k]

\* C7: with no live allocation the list is the one bootstrap segment.
C7_AllFreed ==
    (Completed /\ live = <<>>) =>
        /\ FreeList.ok
        /\ Nodes = <<Base>>
        /\ mem[Base] = pool_len - HeaderSize

\* C8: after a deallocate no node ends where its successor starts.
\* With overflow checks on, the freed block's whole range lies in one node.
C8_Coalesced ==
    (Completed /\ last.op = "dealloc") =>
        /\ FreeList.ok
        /\ \A k \in NodeIdx : k > 1 => get_end(mem, Nodes[k - 1]) # Nodes[k]
        /\ overflow_checks =>
             \E k \in NodeIdx :
                Nodes[k] <= last.ptr /\ last.old_end <= get_end(mem, Nodes[k])

\* two adjacent blocks of 8 bytes each freed between a live block and the
\* pool end: one node of size 8 + header + 8 besides the head
C8_Witness ==
    /\ Completed /\ last.op = "dealloc" /\ overflow_checks
    /\ Len(live) = 1
    /\ Len(Nodes) = 2
    /\ get_end(mem, Nodes[2]) = Base + pool_len
    /\ mem[Nodes[2]] = 8 + HeaderSize + 8
    /\ last.ptr = Nodes[2]

RECURSIVE SumSizes(_, _)
SumSizes(m, nodes) ==
    IF nodes = <<>> THEN 0 ELSE m[Head(nodes)] + SumSizes(m, Tail(nodes))

\* the request's whole span fits the payload of a fresh pool of `len` bytes
PoolHolds(len, size, align) ==
    size + HeaderSize + carve_padding(Base + len, size, align) <= len - HeaderSize

\* C9: allocate then immediately deallocate on a fresh pool that can hold the
\* request leaves at least N - size_of(header) free bytes (the sum of the
\* free nodes' size fields).
C9_RoundTrip ==
    (Completed /\ last.op = "dealloc" /\ last.fresh
       /\ PoolHolds(pool_len, last.size, last.align)) =>
        /\ FreeList.ok
        /\ SumSizes(mem, Nodes) >= pool_len - HeaderSize

\* a round trip of a request that was carved with padding
C9_Witness ==
    /\ Completed /\ last.op = "dealloc" /\ last.fresh
    /\ PoolHolds(pool_len, last.size, last.align)
    /\ carve_padding(Base + pool_len, last.size, last.align) > 0
    /\ last.align = 32

\* C10: the finder returns the highest-address fitting segment.
C10_LastFit ==
    (last.op = "alloc" /\ last.seg # NULL) =>
        /\ last.seg \in last.fitting
        /\ \A n \in last.fitting : n <= last.seg

\* ------------------------------------------------- region bootstrap claims
Booted == last.op = "booted"
BootMap == last.boot_info.memory_regions
BootOffset == last.boot_info.physical_memory_offset
KernelStart == last.boot_info.kernel_addr
KernelEnd == last.boot_info.kernel_addr + last.boot_info.kernel_len
\* the usable regions that pass the kernel filter of the code
PassFilters ==
    {i \in 1..Len(BootMap) :
        BootMap[i].kind = "Usable" /\ i \notin last.skipped}

OverlapsKernel(region) ==
    region.start < KernelEnd /\ KernelStart < region.end

\* C12: a usable region is skipped if and only if it overlaps the kernel's
\* reserved range.
C12_SkipIffOverlap ==
    Booted =>
        \A i \in 1..Len(BootMap) :
            BootMap[i].kind = "Usable" =>
                (i \in last.skipped <=> OverlapsKernel(BootMap[i]))

\* C13: with exactly one accepted region the published list is one node at
\* start + physical_memory_offset of size (end - start) - size_of(header)
\* with a null link; every FreeSegment written belongs to a usable region.
C13_SingleNode ==
    /\ (Booted /\ Len(last.accepted) = 1) =>
          LET region == BootMap[last.accepted[1]]
              segment == region.start + BootOffset
          IN /\ halt = "none"
             /\ first_free = segment
             /\ FreeList.ok /\ Nodes = <<segment>>
             /\ mem[segment] = (region.end - region.start) - HeaderSize
             /\ mem[segment + WordSize] = NULL
    /\ Booted =>
          \A a \in DOMAIN mem :
              \E i \in 1..Len(BootMap) :
                  /\ BootMap[i].kind = "Usable"
                  /\ a \in {BootMap[i].start + BootOffset,
                            BootMap[i].start + BootOffset + WordSize}

\* one accepted region in a map that also holds a region of another kind and
\* a usable region skipped by the kernel test
C13_Witness ==
    /\ Booted /\ Len(last.accepted) = 1 /\ halt = "none"
    /\ last.skipped # {}
    /\ \E i \in 1..Len(BootMap) : BootMap[i].kind # "Usable"
    /\ BootMap[last.accepted[1]].end - BootMap[last.accepted[1]].start > PageSize

\* ------------------------------------------------------------ block layout
\* C14 as stated: the block is [padding][data][UsedSegment]: the header
\* follows the data and ends exactly at the free segment's end before the
\* carve.
C14_HeaderLast ==
    last.op = "carved" =>
        /\ last.ptr + last.size = last.header_start
        /\ last.header_start + HeaderSize = last.end

\* C14: the block is, from low to high address, [data][UsedSegment][padding]:
\* the header follows the data, the padding follows the header and ends
\* exactly at the free segment's end before the carve.
C14_Layout ==
    last.op = "carved" =>
        /\ last.ptr + last.size = last.header_start
        /\ last.header_start + HeaderSize + last.padding = last.end
        /\ last.padding >= 0 /\ last.padding < last.align

\* a carve whose padding is not empty, for a size that is no multiple of the
\* word size
C14_Witness ==
    /\ last.op = "carved"
    /\ last.padding > 0
    /\ last.size % WordSize # 0
    /\ last.header_start + HeaderSize < last.end

\* ------------------------------------------------------------- bit fields
\* the positions first_idx-len+1 .. first_idx of the field
FieldPos(first_idx, len) == (first_idx + 1 - len)..first_idx

\* C16: after x.set_bits(first_idx, len, v), x.get_bits(first_idx, len) is v
\* and every bit outside the field is unchanged.
C16_SetGetBits ==
    last.op = "bits_done" =>
        /\ halt = "none"
        /\ last.got = last.value
        /\ last.out \ FieldPos(last.first_idx, last.len)
             = last.x \ FieldPos(last.first_idx, last.len)

\* ----------------------------------------------------- segment descriptors
\* C15: flags() returns the byte flags_mut() points to and access_byte()
\* returns the byte access_byte_mut() points to.
C15_AccessorsAgree ==
    last.op = "read" =>
        /\ last.flags = last.flags_mut
        /\ last.access_byte = last.access_byte_mut

\* positions of a field's bits in the 64-bit descriptor
FieldBits(field) ==
    CASE field = "p" -> {47}
      [] field = "dpl" -> {45, 46}
      [] field = "s" -> {44}
      [] field = "e" -> {43}
      [] field = "rw" -> {41}
      [] field = "g" -> {55}
      [] field = "db" -> {54}
      [] field = "l" -> {53}

Expected(kind) ==
    CASE kind = "kernel_code" -> byte_at(6, 160) \cup byte_at(5, 154)
      [] kind = "kernel_data" -> byte_at(6, 192) \cup byte_at(5, 146)
      [] kind = "user_code" -> byte_at(6, 160) \cup byte_at(5, 250)
      [] kind = "user_data" -> byte_at(6, 192) \cup byte_at(5, 242)

\* C18: the constructors produce 0x00A09A0000000000, 0x00C0920000000000,
\* 0x00A0FA0000000000 and 0x00C0F20000000000, and a setter gives its field
\* the value and changes no other bit of the 64-bit word.
C18_Constructors ==
    /\ last.op = "constructed" => last.out = Expected(last.field)
    /\ last.op = "set" =>
          /\ last.out \ FieldBits(last.field) = last.raw \ FieldBits(last.field)
          /\ last.out \cap FieldBits(last.field)
               = shl(WordBits, word(last.value),
                     CHOOSE i \in FieldBits(last.field) :
                        \A j \in FieldBits(last.field) : i <= j)
          /\ get_field(last.out, last.field) = last.value

\* the user code constructor: DPL 3 in bits 46..45 next to P, S, E, RW, and
\* G and L in the flags byte
C18_Witness ==
    /\ last.op = "constructed" /\ last.field = "user_code"
    /\ get_field(last.out, "dpl") = Ring3
    /\ get_field(last.out, "l") = 1 /\ get_field(last.out, "db") = 0
    /\ last.out = byte_at(6, 160) \cup byte_at(5, 250)

\* -------------------------------------------------------------------- TSS
\* C17: set_base(v) then base() returns v, set_limit(l) then limit() returns
\* l for a 20-bit l; set_base leaves limit() and the access byte unchanged and
\* set_limit leaves base() and the access byte unchanged.
C17_BaseLimit ==
    /\ last.op = "set_base" =>
          /\ base(last.out) = last.value
          /\ limit(last.out) = limit(last.tss)
          /\ tss_access_byte(last.out) = tss_access_byte(last.tss)
    /\ last.op = "set_limit" =>
          /\ limit(last.out) = last.value
          /\ base(last.out) = base(last.tss)
          /\ tss_access_byte(last.out) = tss_access_byte(last.tss)

\* a base with bit 31 clear and every other bit set, written over a TSS
\* whose two words are all ones
C17_Witness ==
    /\ last.op = "set_base"
    /\ last.tss = <<BitPos(WordBits), BitPos(WordBits)>>
    /\ last.value = BitPos(WordBits) \ {31}
    /\ base(last.out) = last.value
    /\ 63 \notin last.out[2] /\ 51 \in last.out[2]

\* ------------------------------------------------- effects of an allocate
\* the words the allocator and its callers rely on: the headers of the free
\* nodes, the UsedSegment headers and the written data of the live blocks
ProtectedWords ==
    (MetaWords
       \cup UNION {{a \in DOMAIN mem :
                      a >= live[i].ptr /\ a < live[i].ptr + live[i].size} :
                    i \in 1..Len(live)})
        \cap DOMAIN mem

AllocStep == last'.op = "alloc" /\ nops' = nops + 1

\* C19: an allocate that fits no free segment fails and writes nothing: the
\* head pointer, every free node's size and link and every live block's data
\* and UsedSegment header are as before the call.
C19_AllOrNothing ==
    [][(AllocStep /\ last'.fitting = {}) =>
          /\ halt' # "none"
          /\ first_free' = first_free
          /\ \A a \in ProtectedWords : mem'[a] = mem[a]]_vars

\* C20: an allocate that returns changes one field of the free list: the
\* chosen segment's size decreases by size + size_of(UsedSegment) + padding;
\* the head pointer, the nodes, every link and every other size are unchanged.
C20_OnlySizeChanges ==
    [][(AllocStep /\ halt' = "none") =>
          LET before == list_walk(mem, first_free, <<>>, WalkFuel)
              after == list_walk(mem', first_free', <<>>, WalkFuel)
              whole == last'.size + HeaderSize
                         + carve_padding(last'.old_end, last'.size, last'.align)
          IN /\ first_free' = first_free
             /\ before.ok /\ after.ok
             /\ after.nodes = before.nodes
             /\ \A k \in 1..Len(before.nodes) :
                   LET n == before.nodes[k]
                   IN /\ next_free(mem', n) = next_free(mem, n)
                      /\ mem'[n] = IF n = last'.seg THEN mem[n] - whole ELSE mem[n]
             /\ \E k \in 1..Len(before.nodes) : before.nodes[k] = last'.seg]_vars

\* ------------------------------------------------ effects of a deallocate
DeallocStep == last'.op = "dealloc" /\ nops' = nops + 1

\* a deallocate of a block with no free node starting at the end of its span,
\* after which the node written at the block's data pointer is in the list:
\* the new node was merged with no other node
UnmergedFree ==
    /\ DeallocStep /\ halt' = "none" /\ overflow_checks
    /\ \A k \in 1..Len(list_walk(mem, first_free, <<>>, WalkFuel).nodes) :
          list_walk(mem, first_free, <<>>, WalkFuel).nodes[k] # last'.old_end
    /\ \E k \in 1..Len(list_walk(mem', first_free', <<>>, WalkFuel).nodes) :
          list_walk(mem', first_free', <<>>, WalkFuel).nodes[k] = last'.ptr

FreeSpan(n) == [lo |-> n, len |-> HeaderSize + mem[n]]
LiveSpan(i) ==
    [lo |-> live[i].ptr,
     len |-> live[i].size + HeaderSize
               + (IF Readable(mem, live[i].ptr + live[i].size + WordSize)
                  THEN mem[live[i].ptr + live[i].size + WordSize] ELSE 0)]
Spans ==
    [k \in 1..(Len(Nodes) + Len(live)) |->
        IF k <= Len(Nodes) THEN FreeSpan(Nodes[k]) ELSE LiveSpan(k - Len(Nodes))]

RECURSIVE SumLens(_, _)
SumLens(sp, k) == IF k = 0 THEN 0 ELSE sp[k].len + SumLens(sp, k - 1)

\* C22: the spans of the free nodes and of the live allocations are pairwise
\* disjoint, lie in the pool and their lengths sum to the pool's length.
C22_Partition ==
    Completed =>
        /\ FreeList.ok
        /\ \A j, k \in DOMAIN Spans :
              j # k => Disjoint(Spans[j].lo, Spans[j].len, Spans[k].lo, Spans[k].len)
        /\ \A k \in DOMAIN Spans :
              Spans[k].len >= 0 /\ Spans[k].lo >= Base
                /\ Spans[k].lo + Spans[k].len <= Base + pool_len
        /\ SumLens(Spans, Len(Spans)) = pool_len

\* ---------------------------------------------------- finder versus carve
\* find_last_big_enough, lines 246-248: the padding and the carve start the
\* finder hypothesises for a segment that ends at `end`
finder_padding(end, size, align) == (end - size) % align
finder_segment_start(end, size, align) ==
    (end - size) - (finder_padding(end, size, align) + HeaderSize)

\* C23: the padding and carve start hypothesised by the finder equal the
\* padding and the data pointer the carve produces.
C23_FinderMatchesCarve ==
    last.op = "carved" =>
        /\ finder_padding(last.end, last.size, last.align) = last.padding
        /\ finder_segment_start(last.end, last.size, last.align) = last.ptr

\* C24: the UsedSegment written by allocate and the FreeSegment deallocate
\* writes at the data pointer sit at multiples of 8, for a segment end that
\* is a multiple of 8.
C24_HeadersAligned ==
    (last.op = "carved" /\ last.end % WordSize = 0) =>
        /\ last.header_start % WordSize = 0
        /\ last.ptr % WordSize = 0

\* ------------------------------------------------------ concurrent callers
\* C25: the calls of two contexts do not interleave, so two allocations
\* returned to two contexts never hold the same bytes.
C25_Atomic ==
    (last.op = "contexts" /\ halt = "none"
       /\ \A c \in Contexts : last.ctx[c].pc = "done") =>
        Disjoint(last.ctx[1].ptr, last.ctx[1].size,
                 last.ctx[2].ptr, last.ctx[2].size)

\* --------------------------------------------------------- zero-size nodes
\* the nodes reached from the head before and after a step
NodesBefore == list_walk(mem, first_free, <<>>, WalkFuel).nodes
NodesAfter == list_walk(mem', first_free', <<>>, WalkFuel).nodes
LinkedBefore(n) == \E k \in 1..Len(NodesBefore) : NodesBefore[k] = n
LinkedAfter(n) == \E k \in 1..Len(NodesAfter) : NodesAfter[k] = n

\* clean_free_segment_list: the merges the pass performs, as pairs
\* <<absorbing node, absorbed node>>
RECURSIVE clean_merges(_, _, _)
clean_merges(m, cursor, fuel) ==
    IF cursor = NULL \/ fuel = 0
       \/ ~(Readable(m, cursor) /\ Readable(m, cursor + WordSize))
    THEN {}
    ELSE IF get_end(m, cursor) = next_free(m, cursor)
         THEN LET nx == next_free(m, cursor)
              IN IF ~(Readable(m, nx) /\ Readable(m, nx + WordSize)) THEN {}
                 ELSE {<<cursor, nx>>} \cup
                      UNION {clean_merges(merged, cursor, fuel - 1) :
                               merged \in {Store(Store(m, cursor,
                                                       m[cursor] + HeaderSize + m[nx]),
                                                 cursor + WordSize, next_free(m, nx))}}
    ELSE clean_merges(m, next_free(m, cursor), fuel - 1)

\* the merges of the coalescing pass of a deallocate step that returned
MergesOfStep ==
    IF ~(DeallocStep /\ halt' = "none") THEN {}
    ELSE LET used == last'.ptr + last'.size
             m1 == Store(Store(mem, last'.ptr, mem[used] + mem[used + WordSize]),
                         last'.ptr + WordSize, NULL)
             ins == insert_new_segment(m1, first_free, last'.ptr)
         IN UNION {clean_merges(r.mem, r.head, WalkFuel) : r \in {ins}}

\* the coalescing pass of the step merged node n into a neighbour
Absorbed(n) == \E mg \in MergesOfStep : mg[2] = n

\* an allocate that consumed exactly the chosen segment's remaining size
ExactFitStep ==
    /\ AllocStep /\ halt' = "none"
    /\ last'.old_size = last'.size + HeaderSize
                          + carve_padding(last'.old_end, last'.size, last'.align)

C27_DeallocNeverHalts ==
    last.op = "dealloc" => halt = "none"

\* ------------------------------------------------------ no accepted region
\* C28: when the loop over the memory map accepts no region, init halts on
\* its single-region assertion: it does not read through the null head and it
\* does not return with an empty list published.
C28_NoRegionFatal ==
    (Booted /\ last.accepted = <<>>) => halt = "AssertSingleRegion"

\* ------------------------------------------------------------ termination
\* C29: every allocate and every deallocate finishes: the finder scan, the
\* sorted-insert walk and the coalescing pass end after finitely many steps,
\* and the call returns or halts with a fatal error; no walk runs forever.
C29_CallsTerminate ==
    halt # "Diverge"

\* ------------------------------------------------------------ the list head
\* C30: after init has published the head no allocate, deallocate or merge
\* changes the head pointer or unlinks the head node: the head is the node at
\* the pool's base address, and every merge absorbs the higher-address node
\* into the lower one.
C30_HeadFixed ==
    [][/\ first_free = Base /\ first_free' = Base
       /\ Readable(mem', Base) /\ Readable(mem', Base + WordSize)
       /\ \A mg \in MergesOfStep : mg[1] < mg[2] /\ mg[2] # Base]_vars

\* a deallocate in an overflow-checking build after which the head node, still
\* at the pool's base, has absorbed the freed block
C30_Witness ==
    /\ Completed /\ last.op = "dealloc" /\ overflow_checks
    /\ first_free = Base /\ Len(Nodes) >= 1 /\ Nodes[1] = Base
    /\ last.ptr > Base
    /\ last.old_end <= get_end(mem, Base)

\* ---------------------------------------------------------- screen writer
Printed == last.op = "printed"
Glyph == Printed /\ last.c \notin {"LF", "CR"}

\* the row of the cursor when print_char tests the bottom border
RowAtBottomTest ==
    IF last.prev.cur_x + CHAR_WIDTH > last.w.info.width - HORIZONTAL_BORDER_PADDING
    THEN last.prev.cur_y + CHAR_HEIGHT + LINE_SPACING
    ELSE last.prev.cur_y

CrossesBottom ==
    RowAtBottomTest + CHAR_HEIGHT > last.w.info.height - VERTICAL_BORDER_PADDING

OriginBox ==
    [x0 |-> HORIZONTAL_BORDER_PADDING, y0 |-> VERTICAL_BORDER_PADDING,
     x1 |-> HORIZONTAL_BORDER_PADDING + CHAR_WIDTH,
     y1 |-> VERTICAL_BORDER_PADDING + CHAR_HEIGHT]

\* C31: for every sequence of glyphs, line feeds and carriage returns on a
\* frame buffer of at least one glyph plus both borders, no pixel write fails
\* its index assertion, every glyph is drawn inside the padded borders, cur_x
\* stays in [HORIZONTAL_BORDER_PADDING, width - HORIZONTAL_BORDER_PADDING], and
\* a glyph that would cross the bottom border clears the screen and is drawn
\* at the top-left origin.
C31_GlyphsInsideBorders ==
    Printed =>
        /\ halt = "none" /\ last.w.halt = "none"
        /\ last.w.cur_x >= HORIZONTAL_BORDER_PADDING
        /\ last.w.cur_x <= last.w.info.width - HORIZONTAL_BORDER_PADDING
        /\ Glyph =>
              /\ last.w.drawn # NoBox
              /\ last.w.drawn.x0 >= HORIZONTAL_BORDER_PADDING
              /\ last.w.drawn.x1 <= last.w.info.width - HORIZONTAL_BORDER_PADDING
              /\ last.w.drawn.y0 >= VERTICAL_BORDER_PADDING
              /\ last.w.drawn.y1 <= last.w.info.height - VERTICAL_BORDER_PADDING
              /\ \A px \in RasterPixels :
                    pixel_idx(last.w.info, last.w.drawn.x0 + px[1],
                              last.w.drawn.y0 + px[2]) + 2 < last.w.info.byte_len
        /\ (Glyph /\ CrossesBottom) =>
              /\ last.w.cleared
              /\ last.w.drawn = OriginBox
              /\ last.w.boxes = {OriginBox}
        /\ ~Glyph => (last.w.drawn = NoBox /\ last.w.boxes = last.prev.boxes)

\* a glyph sent with the cursor at the right border on the last row that
\* fits, on a screen that shows glyphs: the line wraps, the new row crosses
\* the bottom border, the screen is cleared and the glyph is at the origin
C31_Witness ==
    /\ Glyph /\ halt = "none"
    /\ last.prev.boxes # {}
    /\ last.prev.cur_y + CHAR_HEIGHT
          <= last.w.info.height - VERTICAL_BORDER_PADDING
    /\ last.w.wrapped /\ last.w.cleared
    /\ last.w.drawn = OriginBox
    /\ last.w.boxes = {OriginBox}

====
